---- MODULE Spec2Model ----
(***************************************************************************)
(* Build-time helper scripts of probe-station-esp32:                       *)
(*   scripts/pio_version.py   publishes FW_VERSION and rewrites the        *)
(*                            __VERSION__ placeholder of data/index.html   *)
(*   scripts/gzip_webfiles.py writes a gzip sibling for every web asset    *)
(*                            of data/, injecting the version into HTML    *)
(* The state is the data/ directory, the process environment, the build    *)
(* flags and what the scripts keep between their top level and their       *)
(* hooks.  Strings are TLA+ strings, handled with Len, SubSeq and \o.      *)
(***************************************************************************)
EXTENDS Integers, Sequences, FiniteSets, TLC

VARIABLES
  osEnv,       \* os.environ, a function from variable names to strings
  buildFlags,  \* env["BUILD_FLAGS"], a sequence of flags
  dataExists,  \* whether <PROJECT_DIR>/data exists
  fs,          \* the entries of data/: name -> file
  now,         \* the wall clock, in seconds (time.time())
  fw,          \* module global fw of pio_version.py
  cppdefines,  \* env["CPPDEFINES"] of this invocation
  queue,       \* the pre-actions still to run in this invocation
  version,     \* local `version` of the last gzip_webfiles run
  raised,      \* whether the last hook raised
  written,     \* names the last hook opened for writing
  reported,    \* assets whose size report line the last hook printed
  last,        \* the last step taken
  last2,       \* the step before it
  prevFs,      \* fs before the last step
  prevExists,  \* dataExists before the last step
  prevWritten, \* written before the last step
  extIndex     \* index.html as the web build last emitted it: <<>> or <<content>>

vars == <<osEnv, buildFlags, dataExists, fs, now, fw, cppdefines, queue,
          version, raised, written, reported, last, last2, prevFs,
          prevExists, prevWritten, extIndex>>

MaxTime == 1

----------------------------------------------------------------------------
(* String functions of the Python runtime, as the scripts use them *)

Max(S) == CHOOSE x \in S : \A y \in S : y <= x

Min(S) == CHOOSE x \in S : \A y \in S : x <= y

Sub(s, m, n) == IF m > n THEN "" ELSE SubSeq(s, m, n)

startswith(s, p) == Len(s) >= Len(p) /\ Sub(s, 1, Len(p)) = p

endswith(s, p) == Len(s) >= Len(p) /\ Sub(s, Len(s) - Len(p) + 1, Len(s)) = p

\* `p in s`
contains(s, p) == \E i \in 1..(Len(s) - Len(p) + 1) : Sub(s, i, i + Len(p) - 1) = p

\* s.replace(old, new) for a non-empty old: leftmost, non-overlapping
RECURSIVE replace(_, _, _)
replace(s, old, new) ==
  IF Len(s) < Len(old) THEN s
  ELSE IF Sub(s, 1, Len(old)) = old
       THEN new \o replace(Sub(s, Len(old) + 1, Len(s)), old, new)
       ELSE Sub(s, 1, 1) \o replace(Sub(s, 2, Len(s)), old, new)

\* s.split(sep, 1)[1] for a one-character sep that occurs in s
split1(s, sep) ==
  LET i == Min({j \in 1..Len(s) : Sub(s, j, j) = sep})
  IN  Sub(s, i + 1, Len(s))

lowerChar(c) ==
  CASE c = "A" -> "a" [] c = "B" -> "b" [] c = "C" -> "c" [] c = "D" -> "d"
    [] c = "E" -> "e" [] c = "F" -> "f" [] c = "G" -> "g" [] c = "H" -> "h"
    [] c = "I" -> "i" [] c = "J" -> "j" [] c = "K" -> "k" [] c = "L" -> "l"
    [] c = "M" -> "m" [] c = "N" -> "n" [] c = "O" -> "o" [] c = "P" -> "p"
    [] c = "Q" -> "q" [] c = "R" -> "r" [] c = "S" -> "s" [] c = "T" -> "t"
    [] c = "U" -> "u" [] c = "V" -> "v" [] c = "W" -> "w" [] c = "X" -> "x"
    [] c = "Y" -> "y" [] c = "Z" -> "z" [] OTHER -> c

RECURSIVE lower(_)
lower(s) ==
  IF Len(s) = 0 THEN "" ELSE lowerChar(Sub(s, 1, 1)) \o lower(Sub(s, 2, Len(s)))

\* os.path.splitext on a name without separators: the extension starts at
\* the last dot, unless only dots precede it
splitext(p) ==
  LET dots == {i \in 1..Len(p) : Sub(p, i, i) = "."}
      d    == IF dots = {} THEN 0 ELSE Max(dots)
  IN  IF d > 0 /\ \E i \in 1..(d - 1) : Sub(p, i, i) # "."
      THEN <<Sub(p, 1, d - 1), Sub(p, d, Len(p))>>
      ELSE <<p, "">>

\* os.getenv(key, default) / os.environ.get(key, default)
getenv(environ, key, default) ==
  IF key \in DOMAIN environ THEN environ[key] ELSE default

----------------------------------------------------------------------------
(* The data/ directory *)

PLACEHOLDER == "__VERSION__"

INDEX_HTML == "index.html"

\* Files to compress
extensions == {".html", ".css", ".js"}

\* A regular file holding the bytes d
RawFile(d) == [isdir |-> FALSE, gz |-> <<>>, data |-> d]

Directory == [isdir |-> TRUE, gz |-> <<>>, data |-> ""]

\* A gzip stream as gzip.open(path, 'wb', compresslevel=9) writes it.  The
\* header carries MTIME, which GzipFile sets to time.time() when no mtime is
\* passed, and FNAME, the path's base name without the .gz suffix.  Deflate
\* at a fixed level is deterministic and lossless, so the compressed payload
\* is represented by the bytes it decodes to.
GzFile(t, name, d) ==
  [isdir |-> FALSE, gz |-> <<[mtime |-> t, fname |-> name]>>, data |-> d]

\* gzip.decompress of a file's bytes
decompress(f) == f.data

\* Mode 'ab' instead of 'wb': a second member is appended to the old stream
gzip_open_ab(prior, t, name, content) ==
  IF prior # <<>> /\ prior[1].gz # <<>>
  THEN GzFile(prior[1].gz[1].mtime, prior[1].gz[1].fname, prior[1].data \o content)
  ELSE GzFile(t, name, content)

\* with gzip.open(gz_filepath, 'wb', compresslevel=9) as f_out:
\*     f_out.write(content)
\* prior is what the path held before, <<>> when it did not exist
gzip_open_wb(prior, t, name, content) == GzFile(t, name, content)

----------------------------------------------------------------------------
(* scripts/gzip_webfiles.py *)

\* The fallback literal of pio_version.py used in get_firmware_version
RECURSIVE get_firmware_version_fb(_, _)
get_firmware_version_fb(build_flags, environ) ==
  IF build_flags = <<>> THEN getenv(environ, "FW_VERSION", "v1.0.0")
  ELSE LET flag == Head(build_flags)
       IN  IF flag.str /\ startswith(flag.text, "-DFW_VERSION=")
           THEN split1(flag.text, "=")
           ELSE get_firmware_version_fb(Tail(build_flags), environ)

\* The first string flag that starts with -DFW_VERSION= wins; the
\* environment is consulted only when no flag matches
RECURSIVE get_firmware_version(_, _)
get_firmware_version(build_flags, environ) ==
  IF build_flags = <<>> THEN getenv(environ, "FW_VERSION", "dev")
  ELSE LET flag == Head(build_flags)
       IN  IF flag.str /\ startswith(flag.text, "-DFW_VERSION=")
           THEN split1(flag.text, "=")
           ELSE get_firmware_version(Tail(build_flags), environ)

\* The placeholder is replaced whatever the extension
inject_any(ext, content, ver) == replace(content, PLACEHOLDER, ver)

\* Replace __VERSION__ placeholder with actual version (for HTML files)
inject(ext, content, ver) ==
  IF lower(ext) = ".html" THEN replace(content, PLACEHOLDER, ver) ELSE content

\* One iteration of the loop over os.listdir(data_dir).  st is the pass so
\* far: the directory, the names opened for writing, the report lines
\* printed and whether an exception has left the function.
gzip_file(st, filename, ver, t) ==
  LET f   == st.fs[filename]
      ext == splitext(filename)[2]
      gzn == filename \o ".gz"
  IN  IF f.isdir \/ endswith(filename, ".gz") THEN st
      ELSE IF lower(ext) \notin extensions THEN st
      ELSE LET content == inject(ext, f.data, ver)
               prior   == IF gzn \in DOMAIN st.fs THEN <<st.fs[gzn]>> ELSE <<>>
               out     == gzip_open_wb(prior, t, filename, content)
               files   == [n \in DOMAIN st.fs \cup {gzn} |->
                             IF n = gzn THEN out ELSE st.fs[n]]
               orig_size == Len(f.data)
           IN  \* ratio = (1 - gz_size / orig_size) * 100
               IF orig_size = 0
               THEN [fs |-> files, written |-> st.written \cup {gzn},
                     reported |-> st.reported, raised |-> TRUE]
               ELSE [fs |-> files, written |-> st.written \cup {gzn},
                     reported |-> st.reported \cup {filename}, raised |-> FALSE]

\* for filename in os.listdir(data_dir): the listing is taken once, in an
\* order the operating system chooses; an exception ends the loop
RECURSIVE gzip_loop(_, _, _, _)
gzip_loop(order, st, ver, t) ==
  IF order = <<>> \/ st.raised THEN st
  ELSE gzip_loop(Tail(order), gzip_file(st, Head(order), ver, t), ver, t)

\* No check that data/ exists: os.listdir raises FileNotFoundError
gzip_pass_nocheck(exists, files, order, ver, t) ==
  IF ~exists
  THEN [fs |-> files, written |-> {}, reported |-> {}, raised |-> TRUE]
  ELSE gzip_loop(order, [fs |-> files, written |-> {}, reported |-> {},
                         raised |-> FALSE], ver, t)

\* The body of gzip_webfiles once the version is resolved
gzip_pass(exists, files, order, ver, t) ==
  IF ~exists
  THEN [fs |-> files, written |-> {}, reported |-> {}, raised |-> FALSE]
  ELSE gzip_loop(order, [fs |-> files, written |-> {}, reported |-> {},
                         raised |-> FALSE], ver, t)

----------------------------------------------------------------------------
(* scripts/pio_version.py *)

\* fw = os.getenv("FW_VERSION", "v1.0.0")
resolve_fw(environ) == getenv(environ, "FW_VERSION", "v1.0.0")

\* The value of FW_VERSION among the CPPDEFINES
symbol(defs) == defs[Min({i \in 1..Len(defs) : defs[i][1] = "FW_VERSION"})][2]

\* Callback to replace __VERSION__ in data files before building filesystem
process_data_files_pass(exists, files, fwv) ==
  IF exists /\ INDEX_HTML \in DOMAIN files /\ ~files[INDEX_HTML].isdir
  THEN LET content == files[INDEX_HTML].data
       IN  IF contains(content, PLACEHOLDER)
           THEN [fs |-> [files EXCEPT ![INDEX_HTML] =
                           RawFile(replace(content, PLACEHOLDER, fwv))],
                 written |-> {INDEX_HTML}]
           ELSE [fs |-> files, written |-> {}]
  ELSE [fs |-> files, written |-> {}]

----------------------------------------------------------------------------
(* The inputs of a build *)

NoEnv == [k \in {} |-> ""]

Environs == {NoEnv, [k \in {"FW_VERSION"} |-> "v1"], [k \in {"FW_VERSION"} |-> "v2"]}

StrFlag(x) == [str |-> TRUE, text |-> x]

\* A flag that is not a str (bytes, a tuple): isinstance(flag, str) fails
OtherFlag(x) == [str |-> FALSE, text |-> x]

FlagLists ==
  { <<StrFlag("-Os"), StrFlag("-DFW_VERSION=v3"), StrFlag("-DFW_VERSION=v4")>>,
    <<OtherFlag("-DFW_VERSION=v9"), StrFlag("-DFW_VERSIONS=2")>> }

File(name, f) == [n \in {name} |-> f]

NoFiles == [n \in {} |-> Directory]

\* What data/ holds before a first build
Layouts ==
  { File("index.html", RawFile("a__VERSION__b__VERSION__"))
      @@ File("s.css", RawFile("__VERSION__")),
    File("Page.HTML", RawFile("<__VERSION__>")) @@ File("s.css", RawFile("__VERSION__")),
    File("n.txt", RawFile("__VERSION__")) @@ File("img", Directory)
      @@ File("e.js", RawFile("")),
    File("index.html", RawFile("<p>")) @@ File(".html", RawFile("h"))
      @@ File("old.js.gz", GzFile(0, "old.js", "y")) }

\* The assets the web build may emit again between two builds
Edits == { <<"s.css", "">> }

GZIP == "gzip_webfiles"

PDF == "process_data_files"

\* Both hooks are pre-actions of $BUILD_DIR/spiffs.bin, in the order the
\* scripts were loaded; gzip_webfiles is also a pre-action of uploadfs
Schedules == { <<PDF, GZIP, GZIP>>, <<GZIP, PDF>> }

\* The orders in which os.listdir may return the names S
RECURSIVE Perms(_)
Perms(S) ==
  IF S = {} THEN {<<>>}
  ELSE UNION {{<<x>> \o o : o \in Perms(S \ {x})} : x \in S}

----------------------------------------------------------------------------
(* The steps *)

Init ==
  \E e \in Environs, fl \in FlagLists, q \in Schedules, ex \in BOOLEAN, lay \in Layouts :
    /\ osEnv = e
    /\ buildFlags = fl
    /\ dataExists = ex
    /\ fs = IF ex THEN lay ELSE NoFiles
    /\ now = 0
    /\ fw = resolve_fw(e)
    /\ cppdefines = << <<"FW_VERSION", resolve_fw(e)>> >>
    /\ queue = q
    /\ version = ""
    /\ raised = FALSE
    /\ written = {}
    /\ reported = {}
    /\ last = "LoadScripts"
    /\ last2 = "none"
    /\ prevFs = fs
    /\ prevExists = ex
    /\ prevWritten = {}
    /\ extIndex = IF ex /\ INDEX_HTML \in DOMAIN lay THEN <<lay[INDEX_HTML].data>> ELSE <<>>

History(name) ==
  /\ last' = name
  /\ last2' = last
  /\ prevFs' = fs
  /\ prevExists' = dataExists
  /\ prevWritten' = written

\* A build invocation starts: the top level of both scripts runs in a fresh
\* process with its own environment and build flags
LoadScripts ==
  /\ queue = <<>>
  /\ \E e \in Environs, fl \in FlagLists, q \in Schedules :
       /\ osEnv' = e
       /\ buildFlags' = fl
       /\ fw' = resolve_fw(e)
       /\ cppdefines' = << <<"FW_VERSION", resolve_fw(e)>> >>
       /\ queue' = q
  /\ raised' = FALSE
  /\ written' = {}
  /\ reported' = {}
  /\ History("LoadScripts")
  /\ UNCHANGED <<dataExists, fs, now, version, extIndex>>

process_data_files ==
  /\ queue # <<>>
  /\ Head(queue) = PDF
  /\ LET r == process_data_files_pass(dataExists, fs, fw)
     IN  /\ fs' = r.fs
         /\ written' = r.written
  /\ raised' = FALSE
  /\ reported' = {}
  /\ queue' = Tail(queue)
  /\ History(PDF)
  /\ UNCHANGED <<osEnv, buildFlags, dataExists, now, fw, cppdefines, version, extIndex>>

\* The pass reads the clock once: its files are written within one second
gzip_webfiles ==
  /\ queue # <<>>
  /\ Head(queue) = GZIP
  /\ \E t \in now..MaxTime, order \in Perms(DOMAIN fs) :
       LET ver == get_firmware_version(buildFlags, osEnv)
           r   == gzip_pass(dataExists, fs, order, ver, t)
       IN  /\ version' = ver
           /\ fs' = r.fs
           /\ written' = r.written
           /\ reported' = r.reported
           /\ raised' = r.raised
           /\ queue' = IF r.raised THEN <<>> ELSE Tail(queue)
           /\ now' = t
  /\ History(GZIP)
  /\ UNCHANGED <<osEnv, buildFlags, dataExists, fw, cppdefines, extIndex>>

\* The web build (external) emits an asset again, between two builds
EditAssets ==
  /\ queue = <<>>
  /\ dataExists
  /\ \E ed \in Edits :
       /\ ed[1] \in DOMAIN fs
       /\ fs' = [n \in DOMAIN fs \cup {ed[1]} |->
                   IF n = ed[1] THEN RawFile(ed[2]) ELSE fs[n]]
       /\ extIndex' = IF ed[1] = INDEX_HTML THEN <<ed[2]>> ELSE extIndex
  /\ raised' = FALSE
  /\ written' = {}
  /\ reported' = {}
  /\ History("EditAssets")
  /\ UNCHANGED <<osEnv, buildFlags, dataExists, now, fw, cppdefines, queue, version>>

Next == LoadScripts \/ process_data_files \/ gzip_webfiles \/ EditAssets

Spec == Init /\ [][Next]_vars

----------------------------------------------------------------------------
(* Properties *)

FW_VERSION == "FW_VERSION"

gzname(n) == n \o ".gz"

\* The entries the compressor is to process
Qualifies(files, n) ==
  /\ ~files[n].isdir
  /\ ~endswith(n, ".gz")
  /\ lower(splitext(n)[2]) \in extensions

Assets(files) == {n \in DOMAIN files : Qualifies(files, n)}

IsHtml(n) == lower(splitext(n)[2]) = ".html"

NoFlagMatch ==
  \A i \in 1..Len(buildFlags) :
    ~(buildFlags[i].str /\ startswith(buildFlags[i].text, "-DFW_VERSION="))

BuildDone == queue = <<>> /\ ~raised /\ last \in {GZIP, PDF}

\* C1: the version gzip_webfiles injects into HTML is the version published
\* as the FW_VERSION symbol of the compiled code
C1_OneVersion ==
  last = GZIP
    => \A n \in Assets(prevFs) :
         (IsHtml(n) /\ contains(prevFs[n].data, PLACEHOLDER) /\ gzname(n) \in written)
           => /\ version = symbol(cppdefines)
              /\ contains(decompress(fs[gzname(n)]), symbol(cppdefines))

\* C2: whenever FW_VERSION is set in the environment, the version
\* gzip_webfiles resolves is its value, whatever the build flags
C2_OverrideFirst ==
  (last = GZIP /\ FW_VERSION \in DOMAIN osEnv) => version = osEnv[FW_VERSION]

\* C3: when the web build emitted index.html with the placeholder, after
\* every completed build of the filesystem image the decompressed
\* index.html.gz contains a version that build resolved
C3_VersionPropagates ==
  (BuildDone /\ extIndex # <<>> /\ contains(extIndex[1], PLACEHOLDER))
    => /\ gzname(INDEX_HTML) \in DOMAIN fs
       /\ \/ contains(decompress(fs[gzname(INDEX_HTML)]), version)
          \/ contains(decompress(fs[gzname(INDEX_HTML)]), fw)

\* C4: with FW_VERSION=V in the environment, after a pass that returned
\* normally the sibling of every HTML asset whose source contains the
\* placeholder decompresses to bytes that contain V and no placeholder
C4_EnvVersionInjected ==
  (last = GZIP /\ ~raised /\ FW_VERSION \in DOMAIN osEnv)
    => \A n \in Assets(prevFs) :
         (IsHtml(n) /\ contains(prevFs[n].data, PLACEHOLDER))
           => /\ gzname(n) \in DOMAIN fs
              /\ contains(decompress(fs[gzname(n)]), osEnv[FW_VERSION])
              /\ ~contains(decompress(fs[gzname(n)]), PLACEHOLDER)

\* C5 as stated: two passes in succession leave every sibling with the
\* same bytes
C5_SameBytes ==
  (last = GZIP /\ last2 = GZIP)
    => /\ written = prevWritten
       /\ \A n \in written : fs[n] = prevFs[n]

\* C5 as amended: two passes in succession leave every sibling with the
\* same decompressed content
C5_SameContent ==
  (last = GZIP /\ last2 = GZIP)
    => /\ written = prevWritten
       /\ \A n \in written : decompress(fs[n]) = decompress(prevFs[n])

C5_Witness ==
  /\ last = GZIP
  /\ last2 = GZIP
  /\ \E n \in Assets(prevFs) :
       /\ IsHtml(n)
       /\ contains(prevFs[n].data, PLACEHOLDER)
       /\ gzname(n) \in written
       /\ fs[gzname(n)] # prevFs[gzname(n)]

\* C6: the sibling of every asset a pass processed is one gzip stream that
\* decompresses to the source bytes, with every placeholder replaced by
\* the resolved version when the asset is HTML and unmodified otherwise
C6_RoundTrip ==
  last = GZIP
    => \A n \in DOMAIN prevFs :
         gzname(n) \in written
           => /\ fs[n] = prevFs[n]
              /\ Len(fs[gzname(n)].gz) = 1
              /\ decompress(fs[gzname(n)]) =
                   IF IsHtml(n) THEN replace(prevFs[n].data, PLACEHOLDER, version)
                   ELSE prevFs[n].data

C6_Witness ==
  /\ last = GZIP
  /\ \E n \in DOMAIN prevFs :
       /\ IsHtml(n) /\ gzname(n) \in written
       /\ contains(prevFs[n].data, PLACEHOLDER)
       /\ gzname(n) \in DOMAIN prevFs
       /\ decompress(prevFs[gzname(n)]) # decompress(fs[gzname(n)])
  /\ \E m \in DOMAIN prevFs :
       /\ ~IsHtml(m) /\ gzname(m) \in written
       /\ contains(prevFs[m].data, PLACEHOLDER)

\* C7: a pass opens for writing exactly the siblings of the qualifying
\* entries, leaves every other file as it was and deletes nothing
C7_WriteSet ==
  last = GZIP
    => /\ written = {gzname(n) : n \in Assets(prevFs)}
       /\ DOMAIN fs = DOMAIN prevFs \cup written
       /\ \A n \in DOMAIN prevFs : n \notin written => fs[n] = prevFs[n]

\* C8: without a data/ directory either hook returns normally and leaves
\* the file system as it was
C8_MissingDir ==
  (last \in {GZIP, PDF} /\ ~prevExists)
    => /\ ~raised
       /\ written = {}
       /\ ~dataExists
       /\ fs = prevFs

C8_Witness == last = GZIP /\ last2 = PDF /\ ~prevExists /\ ~dataExists

\* C9: resolution always yields a version taken from one of its sources,
\* and with no override and no matching flag it yields the fallback
\* literal: dev in get_firmware_version, v1.0.0 in pio_version.py
C9_Fallback ==
  /\ last = GZIP =>
       version \in {"dev"}
         \cup {osEnv[k] : k \in DOMAIN osEnv}
         \cup {split1(buildFlags[i].text, "=") :
                 i \in {j \in 1..Len(buildFlags) :
                          startswith(buildFlags[j].text, "-DFW_VERSION=")}}
  /\ (last = GZIP /\ FW_VERSION \notin DOMAIN osEnv /\ NoFlagMatch) => version = "dev"
  /\ FW_VERSION \notin DOMAIN osEnv => (fw = "v1.0.0" /\ symbol(cppdefines) = "v1.0.0")

C9_Witness ==
  /\ last = GZIP
  /\ FW_VERSION \notin DOMAIN osEnv
  /\ NoFlagMatch
  /\ buildFlags # <<>>
  /\ version = "dev"
  /\ fw = "v1.0.0"

\* C10: a pass over an existing data/ returns normally, with the sibling
\* written and the report line printed for every qualifying entry
C10_NeverRaises ==
  (last = GZIP /\ prevExists)
    => /\ ~raised
       /\ reported = Assets(prevFs)
       /\ written = {gzname(n) : n \in Assets(prevFs)}

====
